---- MODULE Spec2Model ----
(***************************************************************************)
(* TrackMixer of irmix (src/mixer.py): the mute/volume state machine and   *)
(* the playback controller, driven through the public methods.             *)
(*                                                                         *)
(* MixerApp.run_mixer (src/main.py) drives the mixer from two threads, the *)
(* keyboard thread and the display loop; there each call on a channel is a *)
(* step of its own.                                                        *)
(*                                                                         *)
(* Volumes are floats in the source.  Here a volume is an integer number   *)
(* of steps of 1/VolScale, so 1.0 is VolScale and 0.0 is 0.  A pygame      *)
(* channel is modelled by the gain last set on it and by its play state.   *)
(***************************************************************************)
EXTENDS Integers, Sequences, FiniteSets, TLC

VARIABLES tracks, order, volumes, status, chan, played, nvol,
          running, input_thread, main_thread

vars == <<tracks, order, volumes, status, chan, played, nvol,
          running, input_thread, main_thread>>

\* MixerApp (src/main.py): self.running, the keyboard thread and the main
\* thread of run_mixer.
app == <<running, input_thread, main_thread>>

(* ------------------------------ bounds -------------------------------- *)

\* Steps between volume 0.0 and volume 1.0.
VolScale == 2

\* Requested volumes: from below 0.0 to above 1.0.
Values == (0 - 1)..(VolScale + 1)

\* Requested volume changes: one step, or enough to leave [0,1] from anywhere.
Deltas == {0 - (VolScale + 1), 0 - 1, 1, VolScale + 1}

\* Volume commands (set_volume, adjust_volume) in one run.
MaxVolumeOps == 1

(* ------------------------------ song.py ------------------------------- *)

ORIGINAL == "original"

\* Song.files, in the insertion order of the dict.
SongParts == <<ORIGINAL, "bass", "drums", "vocals", "other">>

Stems == {SongParts[i] : i \in 2..Len(SongParts)}

(* --------------------------- PlaybackStatus --------------------------- *)

STOPPED == "stopped"
PLAYING == "playing"
PAUSED == "paused"

(* --------------------------- pygame channels -------------------------- *)

\* Channel ids the mixer can hand out: Channel(len(self.tracks)).
ChannelIds == 0..Len(SongParts)

\* A channel before anything was played on it: full gain, not busy.  pos
\* is the elapsed position in the sound: 0 at its beginning, 1 once some of
\* it has been played.
FreshChannel == [volume |-> VolScale, state |-> STOPPED, pos |-> 0]

\* channel.set_volume(v): the channel keeps the gain it is given.  (pygame
\* keeps it in steps of 1/128; the volumes followed here are taken to be
\* exact in those steps, so that only the gain 0.0 reads back as 0.0.)
ChanSetVolume(s, name, v) ==
    [s EXCEPT !.chan[s.tracks[name]].volume = v]

\* channel.get_volume()
ChanGetVolume(s, name) == s.chan[s.tracks[name]].volume

\* channel.get_busy(): a paused channel is still busy.
ChanGetBusy(s, name) == s.chan[s.tracks[name]].state # STOPPED

\* channel.play(sound): (re)starts the channel from the beginning.
ChanPlay(s, name) ==
    [s EXCEPT !.chan[s.tracks[name]].state = PLAYING,
              !.chan[s.tracks[name]].pos = 0]

\* channel.pause(): only a playing channel is paused.
ChanPause(s, name) ==
    [s EXCEPT !.chan[s.tracks[name]].state = IF @ = PLAYING THEN PAUSED ELSE @]

\* channel.unpause(): only a paused channel resumes.
ChanUnpause(s, name) ==
    [s EXCEPT !.chan[s.tracks[name]].state = IF @ = PAUSED THEN PLAYING ELSE @]

\* channel.stop(): the sound is dropped, and its position with it.
ChanStop(s, name) ==
    [s EXCEPT !.chan[s.tracks[name]].state = STOPPED,
              !.chan[s.tracks[name]].pos = 0]

(* ----------------------------- TrackMixer ----------------------------- *)

\* The mixer as one value: self.tracks (a dict: its keys in insertion order
\* and the channel of each), self.volumes, self.status, and the channels.
Self ==
    [tracks |-> tracks, order |-> order, volumes |-> volumes,
     status |-> status, chan |-> chan]

\* TrackMixer.__init__
NewMixer ==
    [tracks |-> <<>>, order |-> <<>>, volumes |-> <<>>,
     status |-> STOPPED, chan |-> [c \in ChannelIds |-> FreshChannel]]

Names(s) == DOMAIN s.tracks

\* TrackMixer.add_track(path, name)
add_track(s, name) ==
    LET channel == Len(s.order)
    IN  [s EXCEPT
           !.tracks = [n \in Names(s) \cup {name} |->
                          IF n = name THEN channel ELSE s.tracks[n]],
           !.order = IF name \in Names(s) THEN @ ELSE Append(@, name),
           !.volumes = [n \in Names(s) \cup {name} |->
                          IF n = name THEN VolScale ELSE s.volumes[n]]]

\* TrackMixer.from_song: one add_track per part of the song that has a file.
RECURSIVE AddParts(_, _, _)
AddParts(s, parts, present) ==
    IF parts = <<>> THEN s
    ELSE AddParts(IF Head(parts) \in present THEN add_track(s, Head(parts)) ELSE s,
                  Tail(parts), present)

from_song(present) == AddParts(NewMixer, SongParts, present)

\* TrackMixer.list_tracks
list_tracks(s) == s.order

\* is_muted looking at the track's own channel only.
is_muted_track_only(s, name) == ChanGetVolume(s, name) = 0

\* TrackMixer.is_muted
is_muted(s, name) ==
    LET track_muted == ChanGetVolume(s, name) = 0
        original_muted == ChanGetVolume(s, ORIGINAL) = 0
    IN  track_muted /\ original_muted

\* _set_muted writing the mute into the nominal volume as well.
set_muted_forgets(s, name, muted) ==
    IF muted
    THEN ChanSetVolume([s EXCEPT !.volumes[name] = 0], name, 0)
    ELSE ChanSetVolume(s, name, s.volumes[name])

\* TrackMixer._set_muted
set_muted(s, name, muted) ==
    IF muted THEN ChanSetVolume(s, name, 0)
    ELSE ChanSetVolume(s, name, s.volumes[name])

\* for n in self.tracks: self._set_muted(n, n == ORIGINAL)
RECURSIVE MuteOriginalOnly(_, _)
MuteOriginalOnly(s, ns) ==
    IF ns = <<>> THEN s
    ELSE MuteOriginalOnly(set_muted(s, Head(ns), Head(ns) = ORIGINAL), Tail(ns))

\* for n in self.tracks: self._set_muted(n, n != ORIGINAL)
RECURSIVE MuteAllButOriginal(_, _)
MuteAllButOriginal(s, ns) ==
    IF ns = <<>> THEN s
    ELSE MuteAllButOriginal(set_muted(s, Head(ns), Head(ns) # ORIGINAL), Tail(ns))

\* for n in self.tracks: if n != ORIGINAL: self._set_muted(n, False)
RECURSIVE RestoreStems(_, _)
RestoreStems(s, ns) ==
    IF ns = <<>> THEN s
    ELSE RestoreStems(IF Head(ns) # ORIGINAL THEN set_muted(s, Head(ns), FALSE) ELSE s,
                      Tail(ns))

\* mute_stem whose mode switch restores the stems and leaves the original on.
mute_stem_keeps_original(s, name) ==
    IF is_muted(s, name) THEN s
    ELSE LET s1 == IF ~is_muted(s, ORIGINAL)
                   THEN RestoreStems(s, list_tracks(s))
                   ELSE s
         IN  set_muted(s1, name, TRUE)

\* mute_stem silencing the requested stem before the mode switch, not after.
mute_stem_reordered(s, name) ==
    IF is_muted(s, name) THEN s
    ELSE LET s1 == set_muted(s, name, TRUE)
         IN  IF ~is_muted(s, ORIGINAL)
             THEN MuteOriginalOnly(s1, list_tracks(s1))
             ELSE s1

\* mute_stem whose mode switch silences the original and restores no stem.
mute_stem_no_restore(s, name) ==
    IF is_muted(s, name) THEN s
    ELSE LET s1 == IF ~is_muted(s, ORIGINAL)
                   THEN set_muted(s, ORIGINAL, TRUE)
                   ELSE s
         IN  set_muted(s1, name, TRUE)

\* mute_stem going through the mode switch in stems mode as well.
mute_stem_always_switches(s, name) ==
    IF is_muted(s, name) THEN s
    ELSE set_muted(MuteOriginalOnly(s, list_tracks(s)), name, TRUE)

\* TrackMixer.mute_stem
mute_stem(s, name) ==
    IF is_muted(s, name) THEN s
    ELSE LET s1 == IF ~is_muted(s, ORIGINAL)
                   THEN MuteOriginalOnly(s, list_tracks(s))
                   ELSE s
         IN  set_muted(s1, name, TRUE)

\* unmute_stem that never collapses back to the combined mix.
unmute_stem_no_collapse(s, name) ==
    IF ~is_muted(s, name) THEN s ELSE set_muted(s, name, FALSE)

\* TrackMixer.unmute_stem
unmute_stem(s, name) ==
    IF ~is_muted(s, name) THEN s
    ELSE LET s1 == set_muted(s, name, FALSE)
         IN  IF \A n \in Names(s1) \ {ORIGINAL} : ~is_muted(s1, n)
             THEN MuteAllButOriginal(s1, list_tracks(s1))
             ELSE s1

\* toggle_mute dispatching to mute_stem whatever is_muted says.
toggle_mute_always_mutes(s, name) == mute_stem(s, name)

\* TrackMixer.toggle_mute
toggle_mute(s, name) ==
    IF is_muted(s, name) THEN unmute_stem(s, name) ELSE mute_stem(s, name)

Min(a, b) == IF a < b THEN a ELSE b
Max(a, b) == IF a > b THEN a ELSE b
\* min(1.0, volume): the lower limit forgotten.
Clamp_no_lower(volume) == Min(VolScale, volume)

\* max(0.0, min(1.0, volume))
Clamp(volume) == Max(0, Min(VolScale, volume))

\* set_volume applying the gain whether or not the track is muted.
set_volume_always_applies(s, name, volume) ==
    LET v == Clamp(volume)
        s1 == [s EXCEPT !.volumes[name] = v]
    IN  ChanSetVolume(s1, name, v)

\* TrackMixer.set_volume
set_volume(s, name, volume) ==
    LET v == Clamp(volume)
        s1 == [s EXCEPT !.volumes[name] = v]
    IN  IF ~is_muted(s1, name) THEN ChanSetVolume(s1, name, v) ELSE s1

\* TrackMixer.get_volume
get_volume(s, name) == s.volumes[name]

\* TrackMixer.adjust_volume
adjust_volume(s, name, delta) ==
    LET current == get_volume(s, name)
        new_volume == current + delta
    IN  set_volume(s, name, new_volume)

\* The loop body of play() starting the channel at the gain it has.
PlayTrack_keeps_gain(s, name) ==
    IF ~ChanGetBusy(s, name) THEN ChanPlay(s, name) ELSE s

\* The body of play()'s loop for one track.
PlayTrack(s, name) ==
    LET volume == IF name = ORIGINAL THEN VolScale ELSE 0
        s1 == ChanSetVolume(s, name, volume)
    IN  IF ~ChanGetBusy(s1, name) THEN ChanPlay(s1, name) ELSE s1

RECURSIVE PlayAll(_, _)
PlayAll(s, ns) ==
    IF ns = <<>> THEN s ELSE PlayAll(PlayTrack(s, Head(ns)), Tail(ns))

\* play() without the test of the status.
play_unguarded(s) == [PlayAll(s, list_tracks(s)) EXCEPT !.status = PLAYING]

\* TrackMixer.play
play(s) ==
    IF s.status # PLAYING
    THEN [PlayAll(s, list_tracks(s)) EXCEPT !.status = PLAYING]
    ELSE s

\* The loop of pause() reaching the first track only.
PauseAll_first_only(s, ns) ==
    IF ns = <<>> THEN s ELSE ChanPause(s, Head(ns))

RECURSIVE PauseAll(_, _)
PauseAll(s, ns) ==
    IF ns = <<>> THEN s ELSE PauseAll(ChanPause(s, Head(ns)), Tail(ns))

\* TrackMixer.pause
pause(s) == [PauseAll(s, list_tracks(s)) EXCEPT !.status = PAUSED]

RECURSIVE UnpauseAll(_, _)
UnpauseAll(s, ns) ==
    IF ns = <<>> THEN s ELSE UnpauseAll(ChanUnpause(s, Head(ns)), Tail(ns))

\* TrackMixer.resume
resume(s) == [UnpauseAll(s, list_tracks(s)) EXCEPT !.status = PLAYING]

RECURSIVE StopAll(_, _)
StopAll(s, ns) ==
    IF ns = <<>> THEN s ELSE StopAll(ChanStop(s, Head(ns)), Tail(ns))

\* stop() handing every channel back as new, its gain with it.
stop_resets(s) ==
    [s EXCEPT !.chan = [c \in ChannelIds |-> FreshChannel], !.status = STOPPED]

\* TrackMixer.stop
stop(s) == [StopAll(s, list_tracks(s)) EXCEPT !.status = STOPPED]

RECURSIVE StartAll(_, _)
StartAll(s, ns) ==
    IF ns = <<>> THEN s ELSE StartAll(ChanPlay(s, Head(ns)), Tail(ns))

\* TrackMixer.rewind_all
rewind_all(s) == StartAll(StopAll(s, list_tracks(s)), list_tracks(s))

(* ------------------------------ actions ------------------------------- *)

\* The mixer's fields after a call that left it as s.
Becomes(s) ==
    /\ tracks' = s.tracks
    /\ order' = s.order
    /\ volumes' = s.volumes
    /\ status' = s.status
    /\ chan' = s.chan

\* The mixer driven directly: run_mixer is not running, no thread exists.
NoApp ==
    /\ running = FALSE
    /\ input_thread = [pc |-> "none"]
    /\ main_thread = [pc |-> "none"]

\* A mixer built by from_song from a song whose original file exists; each
\* stem file may be missing.
Init ==
    /\ \E present \in SUBSET Stems :
          LET s == from_song(present \cup {ORIGINAL})
          IN  /\ tracks = s.tracks
              /\ order = s.order
              /\ volumes = s.volumes
              /\ status = s.status
              /\ chan = s.chan
    /\ played = FALSE
    /\ nvol = 0
    /\ NoApp

Play == Becomes(play(Self)) /\ played' = TRUE /\ UNCHANGED <<nvol, app>>

Pause == Becomes(pause(Self)) /\ UNCHANGED <<played, nvol, app>>

Resume == Becomes(resume(Self)) /\ UNCHANGED <<played, nvol, app>>

Stop == Becomes(stop(Self)) /\ UNCHANGED <<played, nvol, app>>

RewindAll == Becomes(rewind_all(Self)) /\ UNCHANGED <<played, nvol, app>>

MuteStem(name) ==
    Becomes(mute_stem(Self, name)) /\ UNCHANGED <<played, nvol, app>>

UnmuteStem(name) ==
    Becomes(unmute_stem(Self, name)) /\ UNCHANGED <<played, nvol, app>>

ToggleMute(name) ==
    Becomes(toggle_mute(Self, name)) /\ UNCHANGED <<played, nvol, app>>

SetVolume(name, volume) ==
    /\ nvol < MaxVolumeOps
    /\ Becomes(set_volume(Self, name, volume))
    /\ nvol' = nvol + 1
    /\ UNCHANGED <<played, app>>

AdjustVolume(name, delta) ==
    /\ nvol < MaxVolumeOps
    /\ Becomes(adjust_volume(Self, name, delta))
    /\ nvol' = nvol + 1
    /\ UNCHANGED <<played, app>>

\* Any public command, with a name of the TrackSet.
Next ==
    \/ Play
    \/ Pause
    \/ Resume
    \/ Stop
    \/ RewindAll
    \/ \E name \in DOMAIN tracks : MuteStem(name)
    \/ \E name \in DOMAIN tracks : UnmuteStem(name)
    \/ \E name \in DOMAIN tracks : ToggleMute(name)
    \/ \E name \in DOMAIN tracks, volume \in Values : SetVolume(name, volume)
    \/ \E name \in DOMAIN tracks, delta \in Deltas : AdjustVolume(name, delta)

Spec == Init /\ [][Next]_vars

(* -------------------- the mute operations after play ------------------- *)

\* Nominal volumes chosen before playback starts.
SetupVolume ==
    /\ ~played
    /\ \E name \in DOMAIN tracks, volume \in Values : SetVolume(name, volume)

\* The play() that starts the session.
FirstPlay == ~played /\ Play

\* After play(), only mute_stem / unmute_stem / toggle_mute.
NextMute ==
    \/ SetupVolume
    \/ FirstPlay
    \/ played /\ \E name \in DOMAIN tracks : MuteStem(name)
    \/ played /\ \E name \in DOMAIN tracks : UnmuteStem(name)
    \/ played /\ \E name \in DOMAIN tracks : ToggleMute(name)

SpecMute == Init /\ [][NextMute]_vars

(* ------------------------- what a caller sees -------------------------- *)

StemsOf(s) == Names(s) \ {ORIGINAL}

\* The gain presented at each track's channel.
Gains(s) == [n \in Names(s) |-> ChanGetVolume(s, n)]

\* Original audible, every stem silent.
CombinedMode(s) ==
    /\ ChanGetVolume(s, ORIGINAL) # 0
    /\ \A n \in StemsOf(s) : ChanGetVolume(s, n) = 0

\* Every channel gain, nominal volume and is_muted value, and the status.
Observable(s) ==
    [gain |-> Gains(s),
     volume |-> [n \in Names(s) |-> get_volume(s, n)],
     muted |-> [n \in Names(s) |-> is_muted(s, n)],
     status |-> s.status]

\* The mixer of the scenario: every part of the song loaded, play() called.
ScenarioStart == play(from_song(Stems \cup {ORIGINAL}))

(* ------------------------------- claims -------------------------------- *)

\* I1 (a): original audible and every other track silent.
I1a(s) ==
    /\ ChanGetVolume(s, ORIGINAL) # 0
    /\ \A n \in StemsOf(s) : ChanGetVolume(s, n) = 0

\* I1 (b): original silent and each stem silent iff it is muted.
I1b(s) ==
    /\ ChanGetVolume(s, ORIGINAL) = 0
    /\ \A n \in StemsOf(s) : (ChanGetVolume(s, n) = 0) <=> is_muted(s, n)

\* C1: once play() has been called, after every mute_stem / unmute_stem /
\* toggle_mute call exactly one of I1 (a) and I1 (b) holds.
C1_MuteDuality ==
    played => (I1a(Self) \/ I1b(Self)) /\ ~(I1a(Self) /\ I1b(Self))

\* C1 witness: a mixer {original, a, b, c} in stems mode after mute calls,
\* one stem silenced and another audible.
C1_Witness ==
    /\ played
    /\ Cardinality(StemsOf(Self)) = 3
    /\ I1b(Self)
    /\ \E a, b \in StemsOf(Self) :
          ChanGetVolume(Self, a) = 0 /\ ChanGetVolume(Self, b) # 0

\* C2: after the first play(), under any public command, original and a stem
\* are never audible together.
C2_AtMostOneLayer ==
    played =>
        ~(/\ ChanGetVolume(Self, ORIGINAL) # 0
          /\ \E n \in StemsOf(Self) : ChanGetVolume(Self, n) # 0)

\* C3: mute_stem(x) twice leaves the same observable state as mute_stem(x)
\* once, in every reachable state and for every track x.
C3_MuteIdempotent ==
    \A x \in Names(Self) :
        Observable(mute_stem(mute_stem(Self, x), x)) = Observable(mute_stem(Self, x))

\* C3 witness: a stem that is not muted, so that the first mute_stem changes
\* the gains (here with a mode switch) and the second finds it muted.
C3_Witness ==
    \E x \in StemsOf(Self) :
        /\ played
        /\ CombinedMode(Self)
        /\ ~is_muted(Self, x)
        /\ Gains(mute_stem(Self, x)) # Gains(Self)
        /\ is_muted(mute_stem(Self, x), x)

\* C4: in a session started by play(), from combined-mix mode, mute_stem(a)
\* then unmute_stem(a) ends in combined-mix mode, for any stem a.
C4_CollapseRule ==
    \A a \in StemsOf(Self) :
        played /\ CombinedMode(Self)
            => CombinedMode(unmute_stem(mute_stem(Self, a), a))

\* Every nominal volume above 0.0.
AllVolumesPositive(s) == \A n \in Names(s) : get_volume(s, n) > 0

\* C4, amended: from combined-mix mode with every nominal volume above 0.0,
\* mute_stem(a) then unmute_stem(a) ends in combined-mix mode, for any stem a.
C4_CollapseRulePositive ==
    \A a \in StemsOf(Self) :
        CombinedMode(Self) /\ AllVolumesPositive(Self)
            => CombinedMode(unmute_stem(mute_stem(Self, a), a))

\* C4 witness: combined-mix mode with a lowered nominal volume on original;
\* mute_stem(a) leaves stems mode with a silent, unmute_stem(a) collapses it.
C4_Witness ==
    \E a, b \in StemsOf(Self) :
        /\ played
        /\ a # b
        /\ CombinedMode(Self)
        /\ AllVolumesPositive(Self)
        /\ get_volume(Self, ORIGINAL) # VolScale
        /\ is_muted(mute_stem(Self, a), a)
        /\ ChanGetVolume(mute_stem(Self, a), b) # 0
        /\ CombinedMode(unmute_stem(mute_stem(Self, a), a))

\* C5: mute_stem, unmute_stem and toggle_mute leave every nominal volume as
\* it was, also after unmute_stem(x); mute_stem(x) and after a mode switch
\* there and back.
C5_VolumeMemory ==
    \A x \in Names(Self) :
        /\ mute_stem(Self, x).volumes = volumes
        /\ unmute_stem(Self, x).volumes = volumes
        /\ toggle_mute(Self, x).volumes = volumes
        /\ mute_stem(unmute_stem(Self, x), x).volumes = volumes
        /\ toggle_mute(toggle_mute(Self, x), x).volumes = volumes

\* C5 witness: a muted stem with a nominal volume of its own; unmuting it
\* brings the gain to that volume, muting it again silences it.
C5_Witness ==
    \E x \in StemsOf(Self) :
        /\ is_muted(Self, x)
        /\ get_volume(Self, x) \notin {0, VolScale}
        /\ ChanGetVolume(unmute_stem(Self, x), x) = get_volume(Self, x)
        /\ ChanGetVolume(mute_stem(unmute_stem(Self, x), x), x) = 0
        /\ get_volume(mute_stem(unmute_stem(Self, x), x), x) = get_volume(Self, x)

\* C6: set_volume(x, v) leaves get_volume(x) = min(1, max(0, v)),
\* adjust_volume(x, d) leaves get_volume(x) = min(1, max(0, old + d)), for
\* every track and every requested value, and every nominal volume is within
\* [0,1] in every reachable state.
C6_VolumeClamp ==
    /\ \A x \in Names(Self), v \in Values :
          get_volume(set_volume(Self, x, v), x) = Min(VolScale, Max(0, v))
    /\ \A x \in Names(Self), d \in Deltas :
          get_volume(adjust_volume(Self, x, d), x)
              = Min(VolScale, Max(0, get_volume(Self, x) + d))
    /\ \A x \in Names(Self) : get_volume(Self, x) \in 0..VolScale

\* C6 witness: a track brought to 0.0 by a volume command, which a request
\* above 1.0 takes to 1.0 and a negative adjustment leaves at 0.0.
C6_Witness ==
    /\ nvol > 0
    /\ \E x \in Names(Self) :
          /\ get_volume(Self, x) = 0
          /\ get_volume(set_volume(Self, x, VolScale + 1), x) = VolScale
          /\ get_volume(adjust_volume(Self, x, 0 - 1), x) = 0

\* C7: set_volume(x, v) on a muted track changes x's nominal volume and
\* nothing else, so no channel gain; on a track that is not muted it sets x's
\* gain to the clamped value and leaves every other track's gain.
C7_SetVolumeDeferred ==
    \A x \in Names(Self), v \in Values :
        LET t == set_volume(Self, x, v)
        IN  IF is_muted(Self, x)
            THEN /\ t = [Self EXCEPT !.volumes[x] = Min(VolScale, Max(0, v))]
                 /\ Gains(t) = Gains(Self)
                 /\ ChanGetVolume(t, x) = 0
            ELSE /\ ChanGetVolume(t, x) = Min(VolScale, Max(0, v))
                 /\ \A y \in Names(Self) \ {x} :
                       ChanGetVolume(t, y) = ChanGetVolume(Self, y)

\* C7 witness: in stems mode, a muted stem that takes a new nominal volume
\* with its gain left at 0, beside an audible stem whose gain follows.
C7_Witness ==
    \E x, y \in StemsOf(Self) :
        /\ played
        /\ is_muted(Self, x)
        /\ ~is_muted(Self, y)
        /\ get_volume(set_volume(Self, x, 1), x) # get_volume(Self, x)
        /\ ChanGetVolume(set_volume(Self, x, 1), x) = 0
        /\ ChanGetVolume(set_volume(Self, y, 1), y) = 1

\* C8: in combined-mix mode, as right after play(), is_muted(s) is True for
\* every stem s.
C8_StemsMutedInCombinedMode ==
    played /\ CombinedMode(Self) => \A n \in StemsOf(Self) : is_muted(Self, n)

\* C8, amended: in combined-mix mode is_muted is False for every track, the
\* stems included: a stem is muted only when its gain and original's are 0.
C8_NothingMutedInCombinedMode ==
    CombinedMode(Self) => \A n \in Names(Self) : ~is_muted(Self, n)

\* C8 witness: the scenario right after play(): five tracks, all nominal
\* volumes 1.0, original audible and the four stems silent.
C8_Witness ==
    /\ played
    /\ Self = ScenarioStart
    /\ CombinedMode(Self)
    /\ Cardinality(StemsOf(Self)) = 4

\* C9: in the scenario, after play() and one toggle_mute("vocals"):
\* is_muted("original"), not is_muted("vocals"), not is_muted("drums").
C9_ScenarioVocalsAudible ==
    Self = ScenarioStart =>
        LET t == toggle_mute(Self, "vocals")
        IN  /\ is_muted(t, ORIGINAL)
            /\ ~is_muted(t, "vocals")
            /\ ~is_muted(t, "drums")

\* C9, amended: in the scenario, after play() and one toggle_mute("vocals"):
\* is_muted("original"), is_muted("vocals"), and no other stem is muted.
C9_ScenarioVocalsMuted ==
    Self = ScenarioStart =>
        LET t == toggle_mute(Self, "vocals")
        IN  /\ is_muted(t, ORIGINAL)
            /\ is_muted(t, "vocals")
            /\ \A n \in StemsOf(t) \ {"vocals"} : ~is_muted(t, n)

\* C9 witness: the scenario after play() and toggle_mute("vocals").
C9_Witness ==
    /\ played
    /\ Self = toggle_mute(ScenarioStart, "vocals")
    /\ is_muted(Self, "vocals")
    /\ ~is_muted(Self, "drums")

\* C10: with original audible, mute_stem(x) on a stem x leaves original's
\* gain 0, x's gain 0, every other stem's gain at its nominal volume, and the
\* nominal volumes as they were.
C10_ModeSwitchOnMute ==
    \A x \in StemsOf(Self) :
        ChanGetVolume(Self, ORIGINAL) # 0 =>
            LET t == mute_stem(Self, x)
            IN  /\ ChanGetVolume(t, ORIGINAL) = 0
                /\ ChanGetVolume(t, x) = 0
                /\ \A y \in StemsOf(Self) \ {x} :
                      ChanGetVolume(t, y) = get_volume(Self, y)
                /\ t.volumes = volumes

\* C10 witness: combined-mix mode after play(), with a stem whose nominal
\* volume was lowered; muting another stem brings it up to that volume.
C10_Witness ==
    \E x, y \in StemsOf(Self) :
        /\ played
        /\ x # y
        /\ CombinedMode(Self)
        /\ get_volume(Self, y) \notin {0, VolScale}
        /\ ChanGetVolume(mute_stem(Self, x), y) = get_volume(Self, y)
        /\ ChanGetVolume(mute_stem(Self, x), x) = 0
        /\ ChanGetVolume(mute_stem(Self, x), ORIGINAL) = 0

(* -------------------- playback commands, with time --------------------- *)

\* Time passes: every playing channel moves off the beginning of its sound.
Elapse ==
    /\ \E c \in ChannelIds : chan[c].state = PLAYING /\ chan[c].pos = 0
    /\ chan' = [c \in ChannelIds |->
                  IF chan[c].state = PLAYING
                  THEN [chan[c] EXCEPT !.pos = 1] ELSE chan[c]]
    /\ UNCHANGED <<tracks, order, volumes, status>>
    /\ UNCHANGED <<played, nvol, app>>

\* The playback commands and the mute toggle of the interactive mixer, in
\* any order, while the sounds play.
NextPlayback ==
    \/ Play
    \/ Pause
    \/ Resume
    \/ Stop
    \/ RewindAll
    \/ Elapse
    \/ \E name \in DOMAIN tracks : ToggleMute(name)

SpecPlayback == Init /\ [][NextPlayback]_vars

\* The play / pause state and the position of each track's channel.
Playback(s) ==
    [n \in Names(s) |->
        [state |-> s.chan[s.tracks[n]].state, pos |-> s.chan[s.tracks[n]].pos]]

\* The status edges of the playback state machine.
LegalEdges ==
    {<<STOPPED, PLAYING>>, <<PLAYING, PAUSED>>, <<PAUSED, PLAYING>>,
     <<PLAYING, STOPPED>>, <<PAUSED, STOPPED>>}

\* C11: pause() outside Playing and resume() outside Paused are no-ops, so
\* that the status only ever moves along Stopped->Playing, Playing->Paused,
\* Paused->Playing, Playing->Stopped, Paused->Stopped.
C11_GuardedPauseResume ==
    [][status' # status => <<status, status'>> \in LegalEdges]_vars

\* C12: play() while the status is Playing changes nothing: every channel
\* gain, is_muted value, nominal volume, channel playback state and the
\* status stay as they are.
C12_PlayWhilePlaying ==
    status = PLAYING =>
        /\ Observable(play(Self)) = Observable(Self)
        /\ Playback(play(Self)) = Playback(Self)
        /\ play(Self) = Self

\* C12 witness: playing in stems mode, one stem muted and another audible
\* with its sound under way, and play() is called.
C12_Witness ==
    \E x, y \in StemsOf(Self) :
        /\ status = PLAYING
        /\ is_muted(Self, x)
        /\ ChanGetVolume(Self, y) # 0
        /\ Playback(Self)[y] = [state |-> PLAYING, pos |-> 1]
        /\ is_muted(play(Self), x)
        /\ ChanGetVolume(play(Self), y) # 0

\* C13: play() on a Stopped mixer leaves original's gain non-zero, every
\* stem's gain zero, every track's channel playing, the status Playing and
\* the nominal volumes as they were, whatever the earlier commands left.
C13_PlayFromStopped ==
    status = STOPPED =>
        LET t == play(Self)
        IN  /\ ChanGetVolume(t, ORIGINAL) # 0
            /\ \A n \in StemsOf(Self) : ChanGetVolume(t, n) = 0
            /\ \A n \in Names(Self) : Playback(t)[n].state = PLAYING
            /\ t.status = PLAYING
            /\ t.volumes = volumes

\* C13 witness: a mixer stopped in stems mode, original silent and a stem
\* audible at a nominal volume of its own, on which play() is called.
C13_Witness ==
    \E x \in StemsOf(Self) :
        /\ played
        /\ status = STOPPED
        /\ ChanGetVolume(Self, ORIGINAL) = 0
        /\ ChanGetVolume(Self, x) \notin {0, VolScale}
        /\ \A n \in Names(Self) : Playback(Self)[n].state = STOPPED
        /\ CombinedMode(play(Self))
        /\ Playback(play(Self))[x].state = PLAYING

\* C14: stop() from any status ends with the status Stopped and every
\* channel stopped, and changes no channel gain, no is_muted value and no
\* nominal volume.
C14_StopKeepsMix ==
    LET t == stop(Self)
    IN  /\ t.status = STOPPED
        /\ \A n \in Names(Self) : Playback(t)[n].state = STOPPED
        /\ Gains(t) = Gains(Self)
        /\ \A n \in Names(Self) : is_muted(t, n) = is_muted(Self, n)
        /\ t.volumes = volumes

\* C14 witness: a paused mixer in stems mode, one stem muted and another
\* audible at a nominal volume of its own, on which stop() is called.
C14_Witness ==
    \E x, y \in StemsOf(Self) :
        /\ status = PAUSED
        /\ Playback(Self)[x].state = PAUSED
        /\ is_muted(Self, x)
        /\ ChanGetVolume(Self, y) \notin {0, VolScale}
        /\ Playback(stop(Self))[x].state = STOPPED
        /\ is_muted(stop(Self), x)
        /\ stop(Self).status = STOPPED

(* ------------------ a command as the calls it issues ------------------- *)

\* One call on a track's channel, or the assignment to self.status.
Call(op, name, value) == [op |-> op, name |-> name, value |-> value]

\* The mixer after one such call.  "start" is play()'s
\* `if not get_busy(): play(sound)`.
Do(s, c) ==
    CASE c.op = "set_volume" -> ChanSetVolume(s, c.name, c.value)
      [] c.op = "start" ->
            IF ~ChanGetBusy(s, c.name) THEN ChanPlay(s, c.name) ELSE s
      [] c.op = "play" -> ChanPlay(s, c.name)
      [] c.op = "pause" -> ChanPause(s, c.name)
      [] c.op = "unpause" -> ChanUnpause(s, c.name)
      [] c.op = "stop" -> ChanStop(s, c.name)
      [] c.op = "status" -> [s EXCEPT !.status = c.value]

RECURSIVE DoAll(_, _)
DoAll(s, calls) ==
    IF calls = <<>> THEN s ELSE DoAll(Do(s, Head(calls)), Tail(calls))

\* One call op per track, in the order of self.tracks.
ForEachTrack(s, op) ==
    [i \in 1..Len(list_tracks(s)) |-> Call(op, list_tracks(s)[i], 0)]

\* rewind_all with one loop: each track stopped and restarted in turn.
rewind_all_calls_staggered(s) ==
    [i \in 1..(2 * Len(list_tracks(s))) |->
        Call(IF i % 2 = 1 THEN "stop" ELSE "play",
             list_tracks(s)[(i + 1) \div 2], 0)]

\* The calls of rewind_all: the loop of stops, then the loop of plays.
rewind_all_calls(s) == ForEachTrack(s, "stop") \o ForEachTrack(s, "play")

\* C15: rewind_all() stops every channel before it restarts any, restarts
\* every channel from position zero before it returns, and leaves every
\* channel gain, nominal volume and the status as they were.
C15_RewindAll ==
    LET t == rewind_all(Self)
        calls == rewind_all_calls(Self)
    IN  /\ DoAll(Self, calls) = t
        /\ \A n \in Names(Self) :
              /\ \E i \in DOMAIN calls : calls[i] = Call("stop", n, 0)
              /\ \E i \in DOMAIN calls : calls[i] = Call("play", n, 0)
        /\ \A i, j \in DOMAIN calls :
              calls[i].op = "stop" /\ calls[j].op = "play" => i < j
        /\ \A n \in Names(Self) :
              Playback(t)[n] = [state |-> PLAYING, pos |-> 0]
        /\ Gains(t) = Gains(Self)
        /\ t.volumes = volumes
        /\ t.status = status

\* C15 witness: three or more tracks under way in stems mode, one stem
\* muted; rewind_all() brings each channel back to position zero.
C15_Witness ==
    \E x \in StemsOf(Self) :
        /\ Len(order) >= 3
        /\ status = PLAYING
        /\ is_muted(Self, x)
        /\ \A n \in Names(Self) :
              Playback(Self)[n] = [state |-> PLAYING, pos |-> 1]
        /\ \A n \in Names(Self) :
              Playback(rewind_all(Self))[n] = [state |-> PLAYING, pos |-> 0]
        /\ is_muted(rewind_all(Self), x)

(* --------------------- building a mixer by add_track -------------------- *)

\* mixer.add_track(path, name), for any name, present already or not.
AddTrack(name) ==
    Becomes(add_track(Self, name)) /\ UNCHANGED <<played, nvol, app>>

\* A new TrackMixer().
InitAdd ==
    /\ tracks = NewMixer.tracks
    /\ order = NewMixer.order
    /\ volumes = NewMixer.volumes
    /\ status = NewMixer.status
    /\ chan = NewMixer.chan
    /\ played = FALSE
    /\ nvol = 0
    /\ NoApp

\* Tracks are added under the names of the parts of a song, in any order and
\* with repetitions.
NextAdd == \E i \in DOMAIN SongParts : AddTrack(SongParts[i])

SpecAdd == InitAdd /\ [][NextAdd]_vars

\* C16: add_track with a name already in the TrackSet fails, leaving the
\* TrackSet, the track's channel and its nominal volume as they are; with a
\* new name it adds that track alone, at nominal volume 1.0, without
\* starting its channel or changing the status.
C16_AddTrack ==
    \A i \in DOMAIN SongParts :
        LET name == SongParts[i]
            t == add_track(Self, name)
        IN  IF name \in Names(Self)
            THEN /\ Names(t) = Names(Self)
                 /\ t.tracks[name] = tracks[name]
                 /\ t.volumes[name] = volumes[name]
            ELSE /\ Names(t) = Names(Self) \cup {name}
                 /\ \A n \in Names(Self) :
                       t.tracks[n] = tracks[n] /\ t.volumes[n] = volumes[n]
                 /\ t.volumes[name] = VolScale
                 /\ ~ChanGetBusy(t, name)
                 /\ t.status = status

\* C17: after any sequence of add_track calls no two distinct tracks of the
\* TrackSet are bound to the same channel.
C17_ChannelExclusivity ==
    \A a, b \in DOMAIN tracks : a # b => tracks[a] # tracks[b]

(* ------------------- calls with a name of any kind --------------------- *)

\* A call that returned, or raised, leaving the mixer as s.
Returned(s) == [error |-> FALSE, mixer |-> s]
Raised(s) == [error |-> TRUE, mixer |-> s]

\* The names a caller may pass: the parts of a song, whether their file was
\* there or not, and a name that is no part of any song.
AnyName == {SongParts[i] : i \in DOMAIN SongParts} \cup {"guitar"}

\* `assert name in self.tracks`
NameFound(s, name) == name \in Names(s)

\* is_muted(name): both assertions come before anything else.
call_is_muted(s, name) ==
    IF ~NameFound(s, name) \/ ~NameFound(s, ORIGINAL)
    THEN Raised(s) ELSE Returned(s)

\* mute_stem, unmute_stem and toggle_mute all begin with is_muted(name).
call_mute_stem(s, name) ==
    IF call_is_muted(s, name).error
    THEN Raised(s) ELSE Returned(mute_stem(s, name))

call_unmute_stem(s, name) ==
    IF call_is_muted(s, name).error
    THEN Raised(s) ELSE Returned(unmute_stem(s, name))

call_toggle_mute(s, name) ==
    IF call_is_muted(s, name).error
    THEN Raised(s) ELSE Returned(toggle_mute(s, name))

\* set_volume storing the nominal volume before it looks for the track.
call_set_volume_stores_first(s, name, volume) ==
    IF ~NameFound(s, name)
    THEN Raised([s EXCEPT !.volumes =
                    [n \in Names(s) \cup {name} |->
                        IF n = name THEN Clamp(volume) ELSE s.volumes[n]]])
    ELSE Returned(set_volume(s, name, volume))

\* set_volume(name, volume): the assertion is its first statement.
call_set_volume(s, name, volume) ==
    IF ~NameFound(s, name)
    THEN Raised(s) ELSE Returned(set_volume(s, name, volume))

\* get_volume(name)
call_get_volume(s, name) ==
    IF ~NameFound(s, name) THEN Raised(s) ELSE Returned(s)

\* adjust_volume(name, delta): get_volume(name) comes first.
call_adjust_volume(s, name, delta) ==
    IF call_get_volume(s, name).error
    THEN Raised(s) ELSE Returned(adjust_volume(s, name, delta))

\* C18: is_muted, mute_stem, unmute_stem, toggle_mute, set_volume,
\* get_volume and adjust_volume called with a name that is not in the
\* TrackSet each raise, and leave gains, nominal volumes, status and the
\* TrackSet exactly as before the call.
C18_UnknownNameRejected ==
    \A name \in AnyName \ Names(Self) :
        /\ call_is_muted(Self, name) = Raised(Self)
        /\ call_mute_stem(Self, name) = Raised(Self)
        /\ call_unmute_stem(Self, name) = Raised(Self)
        /\ call_toggle_mute(Self, name) = Raised(Self)
        /\ call_get_volume(Self, name) = Raised(Self)
        /\ \A volume \in Values :
              call_set_volume(Self, name, volume) = Raised(Self)
        /\ \A delta \in Deltas :
              call_adjust_volume(Self, name, delta) = Raised(Self)

\* C18 witness: a song without its drums file, playing in stems mode with a
\* stem at a nominal volume of its own: set_volume("drums", ..) and
\* toggle_mute("drums") raise.
C18_Witness ==
    \E x \in StemsOf(Self) :
        /\ played
        /\ "drums" \notin Names(Self)
        /\ ChanGetVolume(Self, ORIGINAL) = 0
        /\ ChanGetVolume(Self, x) \notin {0, VolScale}
        /\ call_set_volume(Self, "drums", 1).error
        /\ call_toggle_mute(Self, "drums").error
        /\ ~call_set_volume(Self, x, 1).error

(* --------------- the other commands as the calls they issue ------------ *)

\* _set_muted(name, muted)
set_muted_call(s, name, muted) ==
    Call("set_volume", name, IF muted THEN 0 ELSE s.volumes[name])

\* for n in self.tracks: self._set_muted(n, n == ORIGINAL)
MuteOriginalOnly_calls(s) ==
    [i \in 1..Len(list_tracks(s)) |->
        set_muted_call(s, list_tracks(s)[i], list_tracks(s)[i] = ORIGINAL)]

\* for n in self.tracks: self._set_muted(n, n != ORIGINAL)
MuteAllButOriginal_calls(s) ==
    [i \in 1..Len(list_tracks(s)) |->
        set_muted_call(s, list_tracks(s)[i], list_tracks(s)[i] # ORIGINAL)]

mute_stem_calls(s, name) ==
    IF is_muted(s, name) THEN <<>>
    ELSE (IF ~is_muted(s, ORIGINAL) THEN MuteOriginalOnly_calls(s) ELSE <<>>)
         \o <<set_muted_call(s, name, TRUE)>>

unmute_stem_calls(s, name) ==
    IF ~is_muted(s, name) THEN <<>>
    ELSE LET first == set_muted_call(s, name, FALSE)
             s1 == Do(s, first)
         IN  <<first>> \o
             (IF \A n \in Names(s) \ {ORIGINAL} : ~is_muted(s1, n)
              THEN MuteAllButOriginal_calls(s) ELSE <<>>)

toggle_mute_calls(s, name) ==
    IF is_muted(s, name) THEN unmute_stem_calls(s, name)
    ELSE mute_stem_calls(s, name)

\* play(): per track the gain of the mode, then the start if not busy.
play_calls(s) ==
    IF s.status # PLAYING
    THEN [i \in 1..(2 * Len(list_tracks(s))) |->
             LET name == list_tracks(s)[(i + 1) \div 2]
             IN  IF i % 2 = 1
                 THEN Call("set_volume", name,
                           IF name = ORIGINAL THEN VolScale ELSE 0)
                 ELSE Call("start", name, 0)]
         \o <<Call("status", ORIGINAL, PLAYING)>>
    ELSE <<>>

pause_calls(s) == ForEachTrack(s, "pause") \o <<Call("status", ORIGINAL, PAUSED)>>

resume_calls(s) ==
    ForEachTrack(s, "unpause") \o <<Call("status", ORIGINAL, PLAYING)>>

stop_calls(s) == ForEachTrack(s, "stop") \o <<Call("status", ORIGINAL, STOPPED)>>

\* Run one after the other, the calls of a command leave the mixer as the
\* command does.
CallsAgree ==
    /\ DoAll(Self, play_calls(Self)) = play(Self)
    /\ DoAll(Self, pause_calls(Self)) = pause(Self)
    /\ DoAll(Self, resume_calls(Self)) = resume(Self)
    /\ DoAll(Self, stop_calls(Self)) = stop(Self)
    /\ DoAll(Self, rewind_all_calls(Self)) = rewind_all(Self)
    /\ \A name \in Names(Self) :
          /\ DoAll(Self, mute_stem_calls(Self, name)) = mute_stem(Self, name)
          /\ DoAll(Self, unmute_stem_calls(Self, name)) = unmute_stem(Self, name)
          /\ DoAll(Self, toggle_mute_calls(Self, name)) = toggle_mute(Self, name)

(* ------------------ MixerApp.run_mixer: the two threads ----------------- *)

\* Keys the keyboard thread handles in one session.
MaxKeys == 2

\* The stems of the mixer panel, in the order of its rows and keys 1-4.
DisplayStems == <<"vocals", "drums", "bass", "other">>

IsShown(name) == name \in DOMAIN tracks

\* The rows of the panel: `if stem in self.mixer.tracks`.
Shown == SelectSeq(DisplayStems, IsShown)

\* What is_muted gives for each row in the mixer s.
MutedRows(s) == [i \in 1..Len(Shown) |-> is_muted(s, Shown[i])]

CommandKeys == {"p", "s", "r", "1", "2", "3", "4"}

\* The key dispatch with p bound to pause() whatever the status.
KeyCalls_p_pauses(s, key) ==
    CASE key = "p" -> pause_calls(s)
      [] key = "s" -> stop_calls(s)
      [] key = "r" -> rewind_all_calls(s)
      [] OTHER ->
            LET stem == DisplayStems[CHOOSE i \in 1..4 : key = ToString(i)]
            IN  IF stem \in Names(s) THEN toggle_mute_calls(s, stem) ELSE <<>>

\* The mixer calls of the command bound to a key.
KeyCalls(s, key) ==
    CASE key = "p" ->
            IF s.status = PLAYING THEN pause_calls(s)
            ELSE IF s.status = PAUSED THEN resume_calls(s)
            ELSE play_calls(s)
      [] key = "s" -> stop_calls(s)
      [] key = "r" -> rewind_all_calls(s)
      [] OTHER ->
            LET stem == DisplayStems[CHOOSE i \in 1..4 : key = ToString(i)]
            IN  IF stem \in Names(s) THEN toggle_mute_calls(s, stem) ELSE <<>>

\* run_mixer up to input_thread.start(): play() has returned, both threads
\* are at the top of their loops.
InitApp ==
    /\ \E present \in SUBSET Stems :
          LET s == play(from_song(present \cup {ORIGINAL}))
          IN  /\ tracks = s.tracks
              /\ order = s.order
              /\ volumes = s.volumes
              /\ status = s.status
              /\ chan = s.chan
              /\ input_thread =
                    [pc |-> "loop", calls |-> <<>>, keys |-> 0,
                     before |-> [i \in 1..Cardinality(present) |-> FALSE],
                     after |-> [i \in 1..Cardinality(present) |-> FALSE]]
    /\ played = TRUE
    /\ nvol = 0
    /\ running = TRUE
    /\ main_thread =
          [pc |-> "loop", calls |-> <<>>, row |-> 1, track_muted |-> FALSE,
           seen |-> <<>>, between |-> {}]

\* The is_muted values of the states between two complete commands that a
\* refresh beginning now overlaps: the state as it is or, with a command in
\* progress, the states before and after that command.
Settled ==
    IF input_thread.pc = "command"
    THEN {input_thread.before, input_thread.after}
    ELSE {MutedRows(Self)}

Refreshing == main_thread.pc \in {"read", "read_original"}

\* handle_keyboard_input: `while self.running`.
KeyboardLoop ==
    /\ input_thread.pc = "loop"
    /\ input_thread' =
          [input_thread EXCEPT !.pc = IF running THEN "select" ELSE "finished"]
    /\ UNCHANGED <<tracks, order, volumes, status, chan, played, nvol>>
    /\ UNCHANGED <<running, main_thread>>

\* select() times out with no key to read.
KeyboardTimeout ==
    /\ input_thread.pc = "select"
    /\ input_thread' = [input_thread EXCEPT !.pc = "loop"]
    /\ UNCHANGED <<tracks, order, volumes, status, chan, played, nvol>>
    /\ UNCHANGED <<running, main_thread>>

\* A command key is read: the method it is bound to is entered.  A refresh
\* under way overlaps the command, and may show the state the command will
\* leave.
KeyboardCommand(key) ==
    /\ input_thread.pc = "select"
    /\ input_thread.keys < MaxKeys
    /\ input_thread' =
          [pc |-> IF KeyCalls(Self, key) = <<>> THEN "loop" ELSE "command",
           calls |-> KeyCalls(Self, key),
           keys |-> input_thread.keys + 1,
           before |-> MutedRows(Self),
           after |-> MutedRows(DoAll(Self, KeyCalls(Self, key)))]
    /\ main_thread' =
          IF Refreshing
          THEN [main_thread EXCEPT
                  !.between = @ \cup
                      {MutedRows(DoAll(Self, KeyCalls(Self, key)))}]
          ELSE main_thread
    /\ UNCHANGED <<tracks, order, volumes, status, chan, played, nvol>>
    /\ UNCHANGED running

\* The method in progress makes its next call on a channel (or assigns the
\* status).  After the last one the command is complete.
KeyboardCall ==
    /\ input_thread.pc = "command"
    /\ Becomes(Do(Self, Head(input_thread.calls)))
    /\ input_thread' =
          [input_thread EXCEPT
              !.calls = Tail(@),
              !.pc = IF Tail(input_thread.calls) = <<>> THEN "loop" ELSE @]
    /\ UNCHANGED <<played, nvol, running, main_thread>>

\* The key q.
KeyboardQuit ==
    /\ input_thread.pc = "select"
    /\ running' = FALSE
    /\ input_thread' = [input_thread EXCEPT !.pc = "finished"]
    /\ UNCHANGED <<tracks, order, volumes, status, chan, played, nvol>>
    /\ UNCHANGED main_thread

\* run_mixer: `while self.running`; update_display() begins, or the loop is
\* left for the stop() of the finally clause.
MainLoop ==
    /\ main_thread.pc = "loop"
    /\ main_thread' =
          IF running
          THEN [main_thread EXCEPT
                  !.pc = IF Shown = <<>> THEN "sleep" ELSE "read",
                  !.row = 1, !.track_muted = FALSE, !.seen = <<>>,
                  !.between = Settled]
          ELSE [main_thread EXCEPT !.pc = "stop", !.calls = stop_calls(Self)]
    /\ UNCHANGED <<tracks, order, volumes, status, chan, played, nvol>>
    /\ UNCHANGED <<running, input_thread>>

\* is_muted(stem) for the next row: the gain of the stem's channel is read.
DisplayReadTrack ==
    /\ main_thread.pc = "read"
    /\ main_thread' =
          [main_thread EXCEPT
              !.pc = "read_original",
              !.track_muted = ChanGetVolume(Self, Shown[main_thread.row]) = 0]
    /\ UNCHANGED <<tracks, order, volumes, status, chan, played, nvol>>
    /\ UNCHANGED <<running, input_thread>>

\* ... then the gain of original's channel, and the row is drawn.
DisplayReadOriginal ==
    /\ main_thread.pc = "read_original"
    /\ LET original_muted == ChanGetVolume(Self, ORIGINAL) = 0
           muted == main_thread.track_muted /\ original_muted
       IN  main_thread' =
              [main_thread EXCEPT
                  !.pc = IF main_thread.row = Len(Shown) THEN "sleep" ELSE "read",
                  !.row = @ + 1,
                  !.track_muted = FALSE,
                  !.seen = Append(@, muted)]
    /\ UNCHANGED <<tracks, order, volumes, status, chan, played, nvol>>
    /\ UNCHANGED <<running, input_thread>>

\* time.sleep(0.25)
MainSleep ==
    /\ main_thread.pc = "sleep"
    /\ main_thread' = [main_thread EXCEPT !.pc = "loop"]
    /\ UNCHANGED <<tracks, order, volumes, status, chan, played, nvol>>
    /\ UNCHANGED <<running, input_thread>>

\* KeyboardInterrupt in the display loop: self.running = False, then the
\* finally clause.
Interrupt ==
    /\ main_thread.pc \in {"loop", "read", "read_original", "sleep"}
    /\ running' = FALSE
    /\ main_thread' = [main_thread EXCEPT !.pc = "stop", !.calls = stop_calls(Self)]
    /\ UNCHANGED <<tracks, order, volumes, status, chan, played, nvol>>
    /\ UNCHANGED input_thread

\* self.mixer.stop() of the finally clause, call by call; run_mixer returns
\* after the last.
MainStopCall ==
    /\ main_thread.pc = "stop"
    /\ Becomes(Do(Self, Head(main_thread.calls)))
    /\ main_thread' =
          [main_thread EXCEPT
              !.calls = Tail(@),
              !.pc = IF Tail(main_thread.calls) = <<>> THEN "returned" ELSE @]
    /\ UNCHANGED <<played, nvol, running, input_thread>>

NextApp ==
    \/ KeyboardLoop
    \/ KeyboardTimeout
    \/ \E key \in CommandKeys : KeyboardCommand(key)
    \/ KeyboardCall
    \/ KeyboardQuit
    \/ MainLoop
    \/ DisplayReadTrack
    \/ DisplayReadOriginal
    \/ MainSleep
    \/ Interrupt
    \/ MainStopCall

SpecApp == InitApp /\ [][NextApp]_vars

\* C19: every set of is_muted values the display reads in one refresh is
\* that of a state between two complete commands (one before or after a
\* command the refresh overlaps): the display never shows an intermediate
\* state of a mode switch.
C19_ConsistentSnapshot ==
    main_thread.pc = "sleep" => main_thread.seen \in main_thread.between

\* C20: once run_mixer has returned and the keyboard thread has finished,
\* every channel is stopped and the status is Stopped.
C20_ReleasedOnExit ==
    main_thread.pc = "returned" /\ input_thread.pc = "finished" =>
        /\ status = STOPPED
        /\ \A n \in DOMAIN tracks : Playback(Self)[n].state = STOPPED

(* ------------------------ sync, gains and status ------------------------ *)

\* C21 (I2): between two complete commands either every track's channel
\* has been started or none has, and either every started channel is paused
\* or none is: no track plays while another is stopped or paused.
C21_Sync ==
    LET state(n) == Playback(Self)[n].state
    IN  /\ \/ \A n \in Names(Self) : state(n) # STOPPED
           \/ \A n \in Names(Self) : state(n) = STOPPED
        /\ \/ \A n \in Names(Self) : state(n) # STOPPED => state(n) = PAUSED
           \/ \A n \in Names(Self) : state(n) # STOPPED => state(n) # PAUSED
        /\ \A n, o \in Names(Self) :
              state(n) = PLAYING => state(o) = PLAYING

\* C21 witness: three tracks or more, paused together after their sounds
\* had run for a while.
C21_Witness ==
    /\ Len(order) >= 3
    /\ status = PAUSED
    /\ \A n \in Names(Self) :
          Playback(Self)[n] = [state |-> PAUSED, pos |-> 1]

\* C22: after the first play(), under any public command, each track's
\* channel gain is 0 or exactly that track's nominal volume.
C22_GainIsZeroOrNominal ==
    played =>
        \A n \in Names(Self) :
            ChanGetVolume(Self, n) \in {0, get_volume(Self, n)}

\* The commands that set gains and nominal volumes: the mute and volume
\* commands, with play() and stop() to start the session over.
NextMix ==
    \/ Play
    \/ Stop
    \/ \E name \in DOMAIN tracks : MuteStem(name)
    \/ \E name \in DOMAIN tracks : UnmuteStem(name)
    \/ \E name \in DOMAIN tracks : ToggleMute(name)
    \/ \E name \in DOMAIN tracks, volume \in Values : SetVolume(name, volume)
    \/ \E name \in DOMAIN tracks, delta \in Deltas : AdjustVolume(name, delta)

SpecMix == Init /\ [][NextMix]_vars

\* The is_muted value of every track.
Muted(s) == [n \in Names(s) |-> is_muted(s, n)]

\* C23: in a session started by play(), set_volume(x, v) and
\* adjust_volume(x, d) leave is_muted(y) as it is for every track y,
\* whatever x, v and d (v = 0 and x = original included).
C23_VolumeKeepsMute ==
    played =>
        \A x \in Names(Self) :
            /\ \A v \in Values : Muted(set_volume(Self, x, v)) = Muted(Self)
            /\ \A d \in Deltas :
                  Muted(adjust_volume(Self, x, d)) = Muted(Self)

\* C23, amended: set_volume(x, v) and adjust_volume(x, d) that leave x a
\* nominal volume above 0.0 leave is_muted(y) as it is for every track y.
C23_PositiveVolumeKeepsMute ==
    LET s == Self
        before == Muted(s)
    IN  \A x \in Names(s) :
            /\ \A v \in Values :
                  Clamp(v) > 0 => Muted(set_volume(s, x, v)) = before
            /\ \A d \in Deltas :
                  Clamp(get_volume(s, x) + d) > 0 =>
                      Muted(adjust_volume(s, x, d)) = before

\* C23 witness: in stems mode after play(), a muted stem and an audible one
\* each take a new nominal volume above 0.0; the first stays muted, the
\* second audible.
C23_Witness ==
    \E x, y \in StemsOf(Self) :
        /\ played
        /\ ChanGetVolume(Self, ORIGINAL) = 0
        /\ is_muted(Self, x)
        /\ ~is_muted(Self, y)
        /\ get_volume(set_volume(Self, x, 1), x) # get_volume(Self, x)
        /\ is_muted(set_volume(Self, x, 1), x)
        /\ ChanGetVolume(set_volume(Self, y, 1), y) # ChanGetVolume(Self, y)
        /\ ~is_muted(set_volume(Self, y, 1), y)

\* C24: with every nominal volume above 0.0, is_muted(x) after
\* toggle_mute(x) is the negation of is_muted(x) before it, for every track
\* x, stem or original.
C24_ToggleToggles ==
    AllVolumesPositive(Self) =>
        \A x \in Names(Self) :
            is_muted(toggle_mute(Self, x), x) = ~is_muted(Self, x)

\* C24 witness: in stems mode after play(), with a lowered nominal volume, a
\* muted stem that the toggle unmutes and original, muted, that the toggle
\* brings back.
C24_Witness ==
    \E x \in StemsOf(Self) :
        /\ played
        /\ AllVolumesPositive(Self)
        /\ get_volume(Self, x) # VolScale
        /\ is_muted(Self, x)
        /\ ~is_muted(toggle_mute(Self, x), x)
        /\ is_muted(Self, ORIGINAL)
        /\ ~is_muted(toggle_mute(Self, ORIGINAL), ORIGINAL)
        /\ \E y \in StemsOf(Self) :
              ~is_muted(Self, y) /\ is_muted(toggle_mute(Self, y), y)

\* C25: under play, pause, resume, stop and rewind_all the status is Stopped
\* only if no channel is playing, Paused only if no channel is advancing,
\* and Playing only if every channel is playing unpaused.
C25_StatusAgreesWithChannels ==
    LET state(n) == Playback(Self)[n].state
    IN  /\ status = STOPPED => \A n \in Names(Self) : state(n) = STOPPED
        /\ status = PAUSED => \A n \in Names(Self) : state(n) # PLAYING
        /\ status = PLAYING => \A n \in Names(Self) : state(n) = PLAYING

(* ---------------- the keyboard thread with its keys alone --------------- *)

\* handle_keyboard_input reading keys among p, s, r, 1-4 while run_mixer
\* stays in its display loop.
NextKeys ==
    \/ KeyboardLoop
    \/ KeyboardTimeout
    \/ \E key \in CommandKeys : KeyboardCommand(key)
    \/ KeyboardCall

SpecKeys == InitApp /\ [][NextKeys]_vars

\* The method a key has just entered is (the calls of) command.
Issues(command) ==
    /\ input_thread.pc = "select"
    /\ input_thread'.pc = "command"
    /\ input_thread'.calls = command

\* C26: for any sequence of the keys p, s, r, 1-4 the status changes only
\* along Stopped->Playing, Playing->Paused, Paused->Playing,
\* Playing->Stopped, Paused->Stopped; pause is issued in Playing only,
\* resume in Paused only, play only otherwise.
C26_KeysDriveLegalEdges ==
    [][/\ status' # status => <<status, status'>> \in LegalEdges
       /\ Issues(pause_calls(Self)) => status = PLAYING
       /\ Issues(resume_calls(Self)) => status = PAUSED
       /\ Issues(play_calls(Self)) => status = STOPPED]_vars

\* C26 witness: the second key is p on a stopped mixer: play() has started
\* every channel and is about to set the status.
C26_Witness ==
    /\ input_thread.keys = 2
    /\ input_thread.pc = "command"
    /\ input_thread.calls = <<Call("status", ORIGINAL, PLAYING)>>
    /\ status = STOPPED
    /\ Len(order) >= 2
    /\ \A n \in Names(Self) : Playback(Self)[n].state = PLAYING

\* The mixers s and t differ in the channel gain of track x at most.
OnlyGainOf(x, s, t) ==
    /\ \A n \in Names(s) \ {x} : ChanGetVolume(t, n) = ChanGetVolume(s, n)
    /\ t.volumes = s.volumes
    /\ t.status = s.status
    /\ Playback(t) = Playback(s)
    /\ Names(t) = Names(s)

\* C27: with original's gain at 0, mute_stem(x) on an unmuted stem x changes
\* x's channel gain only, and so does unmute_stem(x) on a muted stem x when
\* some stem is still muted once x's gain is restored; the other gains, the
\* nominal volumes and the status stay.
C27_LocalInStemsMode ==
    ChanGetVolume(Self, ORIGINAL) = 0 =>
        \A x \in StemsOf(Self) :
            /\ ~is_muted(Self, x) =>
                  /\ OnlyGainOf(x, Self, mute_stem(Self, x))
                  /\ ChanGetVolume(mute_stem(Self, x), x) = 0
            /\ (/\ is_muted(Self, x)
                /\ \E y \in StemsOf(Self) :
                      is_muted(set_muted(Self, x, FALSE), y))
               => /\ OnlyGainOf(x, Self, unmute_stem(Self, x))
                  /\ ChanGetVolume(unmute_stem(Self, x), x) = get_volume(Self, x)

\* C27 witness: stems mode after play() with three stems: x audible, y and
\* z muted with nominal volumes above 0.0; mute_stem(x) silences x alone
\* and unmute_stem(y) restores y alone, z being still muted.
C27_Witness ==
    \E x, y, z \in StemsOf(Self) :
        /\ played
        /\ y # z
        /\ ChanGetVolume(Self, ORIGINAL) = 0
        /\ ~is_muted(Self, x)
        /\ is_muted(Self, y) /\ get_volume(Self, y) > 0
        /\ is_muted(Self, z) /\ get_volume(Self, z) > 0
        /\ ChanGetVolume(mute_stem(Self, x), x) = 0
        /\ ChanGetVolume(mute_stem(Self, x), y) = 0
        /\ ChanGetVolume(unmute_stem(Self, y), y) = get_volume(Self, y)
        /\ is_muted(unmute_stem(Self, y), z)

====
